---------------------------- MODULE Spec2Model ----------------------------
(***************************************************************************)
(* Model of src/main.py: the /scrape-hotel request handler scrape_hotel.   *)
(*                                                                         *)
(* A Python string is a sequence of tokens (each token stands for a run of *)
(* characters that the code's substring tests, regular expressions and     *)
(* splits never cut through).  The parsed document is the sequence of its  *)
(* elements in document order (preorder); every element names its parent   *)
(* by index (0 = the document root) and carries at most one string, which  *)
(* precedes its children.  decompose() is recorded in the set `removed`.   *)
(***************************************************************************)
EXTENDS Integers, Sequences, FiniteSets, TLC

(***************************************************************************)
(* Bounds of the model and constants of the program.                       *)
(***************************************************************************)
MaxImages == 10      \* main.py:136   if len(images) >= 10: break
MaxBody == 2         \* elements after the heading part of a document
MaxText == 3         \* tokens in the text of the review-count element
MaxImgs == 12        \* img elements in a gallery document

NA == <<"N/A">>
Unset == <<"<unset>">>

(***************************************************************************)
(* Strings.                                                                *)
(***************************************************************************)
RECURSIVE LStrip(_)
LStrip(s) == IF s # <<>> /\ Head(s) = " " THEN LStrip(Tail(s)) ELSE s

RECURSIVE RStrip(_)
RStrip(s) ==
    IF s # <<>> /\ s[Len(s)] = " " THEN RStrip(SubSeq(s, 1, Len(s) - 1)) ELSE s

\* str.strip()
Strip(s) == RStrip(LStrip(s))

\* s[i:].startswith(p)
MatchAt(s, p, i) ==
    /\ i + Len(p) - 1 <= Len(s)
    /\ \A k \in 1..Len(p) : s[i + k - 1] = p[k]

\* p in s
Contains(s, p) == \E i \in 1..(Len(s) + 1) : MatchAt(s, p, i)

RECURSIVE ReplaceFrom(_, _, _, _)
ReplaceFrom(s, old, new, i) ==
    IF i > Len(s) THEN <<>>
    ELSE IF MatchAt(s, old, i)
         THEN new \o ReplaceFrom(s, old, new, i + Len(old))
         ELSE <<s[i]>> \o ReplaceFrom(s, old, new, i + 1)

\* str.replace(old, new), old non-empty: leftmost, non-overlapping
Replace(s, old, new) == ReplaceFrom(s, old, new, 1)

RECURSIVE Before(_, _)
\* s.split(sep)[0] for a one-token separator
Before(s, sep) ==
    IF s = <<>> \/ Head(s) = sep THEN <<>>
    ELSE <<Head(s)>> \o Before(Tail(s), sep)

RECURSIVE Without(_, _)
\* s.replace(t, "") for a one-token t
Without(s, t) ==
    IF s = <<>> THEN <<>>
    ELSE IF Head(s) = t THEN Without(Tail(s), t)
         ELSE <<Head(s)>> \o Without(Tail(s), t)

RECURSIVE JoinSeq(_, _)
\* sep.join(parts)
JoinSeq(parts, sep) ==
    IF parts = <<>> THEN <<>>
    ELSE IF Len(parts) = 1 THEN parts[1]
         ELSE parts[1] \o sep \o JoinSeq(Tail(parts), sep)

(***************************************************************************)
(* The document tree.                                                      *)
(***************************************************************************)
El(tag, parent) ==
    [tag |-> tag, parent |-> parent, id |-> "", auto |-> "", cls |-> "",
     mname |-> "", mprop |-> "", hasContent |-> FALSE, content |-> <<>>,
     href |-> <<>>, lazyurl |-> <<>>, datasrc |-> <<>>, src |-> <<>>,
     text |-> <<>>]

RECURSIVE IsDescendant(_, _, _)
\* element i lies strictly below element a
IsDescendant(nodes, i, a) ==
    /\ i # 0
    /\ nodes[i].parent # 0
    /\ \/ nodes[i].parent = a
       \/ IsDescendant(nodes, nodes[i].parent, a)

Subtree(nodes, a) == {a} \cup {i \in 1..Len(nodes) : IsDescendant(nodes, i, a)}

\* the elements still in the tree
Live(nodes, removed) == (1..Len(nodes)) \ removed

Min(S) == CHOOSE x \in S : \A y \in S : x <= y

\* first element of S in document order, 0 (None) when there is none
First(S) == IF S = {} THEN 0 ELSE Min(S)

RECURSIVE InOrder(_)
\* the elements of S in document order
InOrder(S) == IF S = {} THEN <<>> ELSE <<Min(S)>> \o InOrder(S \ {Min(S)})

RECURSIVE Strings(_, _, _)
\* the strings of the elements `order`, stripped and empties dropped when strip
Strings(nodes, order, strip) ==
    IF order = <<>> THEN <<>>
    ELSE LET raw == nodes[Head(order)].text
             s   == IF strip THEN Strip(raw) ELSE raw
         IN  (IF s = <<>> THEN <<>> ELSE <<s>>)
                 \o Strings(nodes, Tail(order), strip)

\* Tag.get_text(separator=sep, strip=strip)
GetText(nodes, removed, a, sep, strip) ==
    JoinSeq(Strings(nodes,
                    InOrder(Subtree(nodes, a) \cap Live(nodes, removed)),
                    strip),
            sep)

(***************************************************************************)
(* 1. Hotel name (main.py:35-50).                                          *)
(***************************************************************************)
\* soup.find("h1", {"id": "HEADING"})
Heading(nodes, removed) ==
    First({i \in Live(nodes, removed) :
              nodes[i].tag = "h1" /\ nodes[i].id = "HEADING"})

\* h1_tag.find(attrs={"data-automation": "listingBadgeTooltip"})
JunkBadge(nodes, removed, h1) ==
    First({i \in Live(nodes, removed) :
              /\ IsDescendant(nodes, i, h1)
              /\ nodes[i].auto = "listingBadgeTooltip"})

\* if junk_badge: junk_badge.decompose()
DecomposeBadge(nodes, removed, h1) ==
    LET junk == JunkBadge(nodes, removed, h1)
    IN  IF junk = 0 THEN removed ELSE removed \cup Subtree(nodes, junk)

\* for icon in h1_tag.find_all("svg"): icon.decompose()
DecomposeIcons(nodes, removed, h1) ==
    removed \cup UNION {Subtree(nodes, i) :
                          i \in {j \in Live(nodes, removed) :
                                    /\ IsDescendant(nodes, j, h1)
                                    /\ nodes[j].tag = "svg"}}

\* the tree after the name extractor has run
CleanHeading(nodes, removed) ==
    LET h1 == Heading(nodes, removed)
    IN  IF h1 = 0 THEN removed
        ELSE DecomposeIcons(nodes, DecomposeBadge(nodes, removed, h1), h1)

HotelName(nodes, removed) ==
    LET h1 == Heading(nodes, removed)
    IN  IF h1 = 0 THEN NA
        ELSE GetText(nodes, CleanHeading(nodes, removed), h1, <<>>, TRUE)

(***************************************************************************)
(* 2. Description (main.py:53-67).                                         *)
(***************************************************************************)
ReadMore == <<"Read", " ", "more">>

\* soup.find(attrs={"data-automation": "aboutTabDescription"})
AboutTab(nodes, removed) ==
    First({i \in Live(nodes, removed) : nodes[i].auto = "aboutTabDescription"})

\* about_tab.get_text(separator=" ", strip=True).replace("Read more", "").strip()
AboutText(nodes, removed, about) ==
    Strip(Replace(GetText(nodes, removed, about, <<" ">>, TRUE), ReadMore, <<>>))

\* soup.find("meta", {"name": "description"}) or
\* soup.find("meta", {"property": "og:description"})
MetaDesc(nodes, removed) ==
    LET byName == First({i \in Live(nodes, removed) :
                            nodes[i].tag = "meta" /\ nodes[i].mname = "description"})
        byProp == First({i \in Live(nodes, removed) :
                            nodes[i].tag = "meta" /\ nodes[i].mprop = "og:description"})
    IN  IF byName # 0 THEN byName ELSE byProp

\* meta_desc.get("content", "").strip()
MetaContent(nodes, meta) ==
    Strip(IF nodes[meta].hasContent THEN nodes[meta].content ELSE <<>>)

Description(nodes, removed) ==
    LET about == AboutTab(nodes, removed)
        d1    == IF about = 0 THEN NA ELSE AboutText(nodes, removed, about)
        meta  == MetaDesc(nodes, removed)
    IN  IF (d1 = NA \/ d1 = <<>>) /\ meta # 0
        THEN MetaContent(nodes, meta)
        ELSE d1

(***************************************************************************)
(* 3. Contact number (main.py:70-82).                                      *)
(***************************************************************************)
\* soup.find("a", href=re.compile(r"^tel:"))
PhoneLink(nodes, removed) ==
    First({i \in Live(nodes, removed) :
              /\ nodes[i].tag = "a"
              /\ nodes[i].href # <<>>
              /\ Head(nodes[i].href) = "tel:"})

\* soup.find(string=re.compile(r"telephone"))
ScriptContent(nodes, removed) ==
    First({i \in Live(nodes, removed) : Contains(nodes[i].text, <<"telephone">>)})

\* "telephone":"  (Q is the double quote)
TelKey == <<"Q", "telephone", "Q", ":", "Q">>

\* the longest prefix without a double quote: [^"]*
NoQuotePrefix(s) == Before(s, "Q")

\* re.search(r'"telephone":"([^"]+)"', s): the start of the leftmost match, 0 if none
PhoneMatch(s) ==
    First({i \in 1..Len(s) :
              /\ MatchAt(s, TelKey, i)
              /\ LET rest == SubSeq(s, i + Len(TelKey), Len(s))
                     val  == NoQuotePrefix(rest)
                 IN  val # <<>> /\ Len(val) < Len(rest)})

\* phone_match.group(1)
PhoneGroup(s, i) == NoQuotePrefix(SubSeq(s, i + Len(TelKey), Len(s)))

ContactNumber(nodes, removed) ==
    LET link == PhoneLink(nodes, removed)
        scr  == ScriptContent(nodes, removed)
    IN  IF link # 0 THEN Without(nodes[link].href, "tel:")
        ELSE IF scr = 0 THEN NA
        ELSE IF PhoneMatch(nodes[scr].text) = 0 THEN NA
        ELSE PhoneGroup(nodes[scr].text, PhoneMatch(nodes[scr].text))

(***************************************************************************)
(* 4. Rating (main.py:85-94).                                              *)
(***************************************************************************)
RatingTokens == {"4.5", "3.0"}     \* tokens of the shape \d\.\d

OfFiveBubbles == <<" ", "of", " ", "5", " ", "bubbles">>

\* re.compile(r"\d\.\d of 5 bubbles").search(s): start of the leftmost match, 0 if none
BubblesMatch(s) ==
    First({i \in 1..Len(s) :
              s[i] \in RatingTokens /\ MatchAt(s, OfFiveBubbles, i + 1)})

\* soup.find("span", {"class": "uwJeR"})
RatingTag(nodes, removed) ==
    First({i \in Live(nodes, removed) :
              nodes[i].tag = "span" /\ nodes[i].cls = "uwJeR"})

\* soup.find(string=re.compile(r"\d\.\d of 5 bubbles"))
TextRating(nodes, removed) ==
    First({i \in Live(nodes, removed) : BubblesMatch(nodes[i].text) # 0})

Rating(nodes, removed) ==
    LET tag == RatingTag(nodes, removed)
        txt == TextRating(nodes, removed)
    IN  IF tag # 0 THEN Strip(GetText(nodes, removed, tag, <<>>, FALSE))
        ELSE IF txt # 0 THEN Before(nodes[txt].text, " ")
        ELSE NA

(***************************************************************************)
(* 5. Review count (main.py:97-107).                                       *)
(***************************************************************************)
Digits == {"1", "2"}

IsDigitOrComma(t) == t \in Digits \/ t = ","

RECURSIVE DigitRun(_)
\* the longest prefix of digits and commas
DigitRun(s) ==
    IF s = <<>> \/ ~IsDigitOrComma(Head(s)) THEN <<>>
    ELSE <<Head(s)>> \o DigitRun(Tail(s))

RECURSIVE NumberMatch(_)
\* re.search(r'([\d,]+)', s).group(1), <<>> when there is no match
NumberMatch(s) ==
    IF s = <<>> THEN <<>>
    ELSE IF IsDigitOrComma(Head(s)) THEN DigitRun(s)
         ELSE NumberMatch(Tail(s))

\* soup.find(attrs={"data-automation": "bubbleReviewCount"})
ReviewTag(nodes, removed) ==
    First({i \in Live(nodes, removed) : nodes[i].auto = "bubbleReviewCount"})

ReviewCount(nodes, removed) ==
    LET tag  == ReviewTag(nodes, removed)
        text == Strip(GetText(nodes, removed, tag, <<>>, FALSE))
    IN  IF tag = 0 THEN NA
        ELSE IF NumberMatch(text) = <<>> THEN NA
        ELSE Without(NumberMatch(text), ",")

(***************************************************************************)
(* 6. Images (main.py:110-137).                                            *)
(***************************************************************************)
Denylist == {"avatar", "logo", "icon", "map_pin", ".svg", "blank.gif"}

SizeClass == {"s", "f", "l", "m", "t"}

Range(s) == {s[i] : i \in 1..Len(s)}

\* img.get("data-lazyurl") or img.get("data-src") or img.get("src")
ImgSrc(img) ==
    IF img.lazyurl # <<>> THEN img.lazyurl
    ELSE IF img.datasrc # <<>> THEN img.datasrc
    ELSE img.src

\* any(x in src for x in [...])
Denylisted(src) == \E x \in Denylist : Contains(src, <<x>>)

\* src and "media/photo-" in src, and not denylisted
Qualifies(src) ==
    /\ src # <<>>
    /\ Contains(src, <<"media/photo-">>)
    /\ ~Denylisted(src)

\* the pattern /media/photo-[sflmt]/ matches at position i
SizeSegmentAt(s, i) ==
    /\ i + 3 <= Len(s)
    /\ s[i] = "/"
    /\ s[i + 1] = "media/photo-"
    /\ s[i + 2] \in SizeClass
    /\ s[i + 3] = "/"

WideSegment == <<"/", "media/photo-", "w", "/">>

RECURSIVE SubFrom(_, _)
SubFrom(s, i) ==
    IF i > Len(s) THEN <<>>
    ELSE IF SizeSegmentAt(s, i) THEN WideSegment \o SubFrom(s, i + 4)
         ELSE <<s[i]>> \o SubFrom(s, i + 1)

\* the rewrite left out: the source is taken as it is
HighResKept(src) == src

\* re.sub(r'/media/photo-[sflmt]/', '/media/photo-w/', src)
HighRes(src) == SubFrom(src, 1)

\* if "?" in u: u = u.split("?")[0]
StripQuery(u) == Before(u, "?")

\* the URL the loop body offers to the list
Normalize(src) == StripQuery(HighRes(src))

\* the membership test left out: every offered URL is appended
AppendAlways(imgs, u) == Append(imgs, u)

\* if high_res_src not in images: images.append(high_res_src)
AppendNew(imgs, u) == IF u \in Range(imgs) THEN imgs ELSE Append(imgs, u)

\* one pass of the loop body before the cap test (main.py:116-133)
ScanOne(imgs, img) ==
    IF Qualifies(ImgSrc(img)) THEN AppendNew(imgs, Normalize(ImgSrc(img))) ELSE imgs

\* if len(images) >= 10: break
CapReached(imgs) == Len(imgs) >= MaxImages

\* soup.find_all("img")
ImgTags(nodes, removed) ==
    InOrder({i \in Live(nodes, removed) : nodes[i].tag = "img"})

RECURSIVE Scan(_, _, _)
\* the whole loop over the elements `order`, starting from the list imgs
Scan(nodes, order, imgs) ==
    IF order = <<>> THEN imgs
    ELSE LET next == ScanOne(imgs, nodes[Head(order)])
         IN  IF CapReached(next) THEN next ELSE Scan(nodes, Tail(order), next)

Images(nodes, removed) == Scan(nodes, ImgTags(nodes, removed), <<>>)

(***************************************************************************)
(* Documents the fetch can deliver.  A fragment is a sequence of elements  *)
(* whose parent indices are relative to the fragment; a document is a      *)
(* concatenation of fragments.                                             *)
(***************************************************************************)
Shift(frag, off) ==
    [i \in 1..Len(frag) |->
        [frag[i] EXCEPT !.parent = IF @ = 0 THEN 0 ELSE @ + off]]

RECURSIVE AssembleFrom(_, _)
AssembleFrom(frags, off) ==
    IF frags = <<>> THEN <<>>
    ELSE Shift(Head(frags), off)
             \o AssembleFrom(Tail(frags), off + Len(Head(frags)))

Assemble(frags) == AssembleFrom(frags, 0)

RECURSIVE SeqsUpTo(_, _)
\* the sequences over S of length at most n
SeqsUpTo(S, n) ==
    IF n = 0 THEN {<<>>}
    ELSE LET shorter == SeqsUpTo(S, n - 1)
         IN  shorter \cup {Append(q, x) : q \in shorter, x \in S}

\* photo URLs
Photo(i, c) == <<"https://cdn", "/", "media/photo-", c, "/", ToString(i), ".jpg">>
Query == <<"?", "w=50">>
ClassOf(i) == <<"s", "f", "l", "m", "t", "w", "o">>[(i % 7) + 1]

\* --- the heading and what sits inside it ---
HeadingTexts == {<<>>, <<" ">>, <<"Grand">>, <<" ", "Grand", " ">>}

Payloads == {"img", "review", "rating", "about", "meta", "tel", "bubbles"}

Payload(p, parent) ==
    CASE p = "img"     -> [El("img", parent) EXCEPT !.src = Photo(1, "s")]
      [] p = "review"  -> [El("span", parent) EXCEPT !.auto = "bubbleReviewCount",
                                                     !.text = <<"(", "1", "2", " ", "r", ")">>]
      [] p = "rating"  -> [El("span", parent) EXCEPT !.cls = "uwJeR",
                                                     !.text = <<"4.5">>]
      [] p = "about"   -> [El("div", parent) EXCEPT !.auto = "aboutTabDescription",
                                                    !.text = <<"About">>]
      [] p = "meta"    -> [El("meta", parent) EXCEPT !.mname = "description",
                                                     !.hasContent = TRUE,
                                                     !.content = <<"Meta">>]
      [] p = "tel"     -> [El("a", parent) EXCEPT !.href = <<"tel:", "+1555">>,
                                                  !.text = <<"Call">>]
      [] p = "bubbles" -> [El("span", parent) EXCEPT
                              !.text = <<"3.0">> \o OfFiveBubbles]

Badge(parent) ==
    [El("span", parent) EXCEPT !.auto = "listingBadgeTooltip", !.text = <<"Claimed">>]

KidKinds ==
    [k : {"none", "span", "svg", "badge"}, p : {"none"}]
        \cup [k : {"badge"}, p : Payloads]

\* a child of the heading, placed at index own of the fragment
Kid(kind, own) ==
    CASE kind.k = "none" -> <<>>
      [] kind.k = "span" -> <<[El("span", 1) EXCEPT !.text = <<"Hotel">>]>>
      [] kind.k = "svg"  -> <<[El("svg", 1) EXCEPT !.text = <<"IconTitle">>]>>
      [] kind.k = "badge" ->
            IF kind.p = "none" THEN <<Badge(1)>>
            ELSE <<Badge(1), Payload(kind.p, own)>>

HeadingFragment(text, k1, k2) ==
    LET h1   == [El("h1", 0) EXCEPT !.id = "HEADING", !.text = text]
        kid1 == Kid(k1, 2)
    IN  <<h1>> \o kid1 \o Kid(k2, 2 + Len(kid1))

HeadingFragments ==
    {HeadingFragment(t, k1, k2) : t \in HeadingTexts, k1 \in KidKinds, k2 \in KidKinds}

\* --- fragments outside the heading ---
AboutTexts ==
    {<<>>, <<"Nice">>, ReadMore, <<"Nice", " ", "Read", " ", "more">>, NA}

About(text) == [El("div", 0) EXCEPT !.auto = "aboutTabDescription", !.text = text]

AboutFragments ==
    {<<About(t)>> : t \in AboutTexts}
        \cup {<<About(<<"Nice">>), [El("p", 1) EXCEPT !.text = <<" ", "view", " ">>]>>,
              <<About(<<"Read">>), [El("a", 1) EXCEPT !.text = <<"more">>]>>}

MetaFragments ==
    {<<[El("meta", 0) EXCEPT !.mname = "description", !.hasContent = TRUE,
                             !.content = <<" ", "Meta", " ">>]>>,
     <<[El("meta", 0) EXCEPT !.mname = "description"]>>,
     <<[El("meta", 0) EXCEPT !.mprop = "og:description", !.hasContent = TRUE,
                             !.content = <<"Og">>]>>}

PhoneFragments ==
    {<<[El("a", 0) EXCEPT !.href = <<"tel:", "+1555">>, !.text = <<"Call">>]>>,
     <<[El("a", 0) EXCEPT !.href = <<"https://cdn", "/", "tel:">>]>>,
     <<[El("script", 0) EXCEPT !.text = <<"{">> \o TelKey \o <<"+1559", "Q", "}">>]>>,
     <<[El("p", 0) EXCEPT !.text = <<"telephone", ":", " ", "+1550">>]>>}

RatingTexts ==
    {<<"4.5">> \o OfFiveBubbles,
     <<"Rated", " ", "4.5">> \o OfFiveBubbles,
     <<" ", "3.0">> \o OfFiveBubbles,
     <<"x", "4.5">> \o OfFiveBubbles,
     <<"4.5", " ", "of", " ", "5">>}

RatingFragments ==
    {<<[El("span", 0) EXCEPT !.cls = "uwJeR", !.text = <<" ", "5.0", " ">>]>>}
        \cup {<<[El("div", 0) EXCEPT !.text = t]>> : t \in RatingTexts}

OtherFragments ==
    {<<[El("span", 0) EXCEPT !.auto = "bubbleReviewCount",
                             !.text = <<" ", "(", "1", ",", "2", " ", "r", ")">>]>>,
     <<[El("img", 0) EXCEPT !.src = Photo(2, "t") \o Query]>>,
     <<[El("h1", 0) EXCEPT !.id = "HEADING", !.text = <<"Plain">>]>>,
     <<[El("h1", 0) EXCEPT !.text = <<"Other">>]>>}

BodyPool ==
    AboutFragments \cup MetaFragments \cup PhoneFragments
        \cup RatingFragments \cup OtherFragments

BodyDocs == {Assemble(fs) : fs \in SeqsUpTo(BodyPool, MaxBody)}

HeadingTails ==
    {<<>>} \cup {<<f>> : f \in {<<About(<<"Nice">>)>>,
                               <<[El("meta", 0) EXCEPT !.mprop = "og:description",
                                                       !.hasContent = TRUE,
                                                       !.content = <<"Og">>]>>,
                               <<[El("img", 0) EXCEPT !.src = Photo(2, "t")]>>}}

HeadingDocs ==
    {Assemble(<<h>> \o tail) : h \in HeadingFragments, tail \in HeadingTails}

\* --- the review-count element with every short text ---
ReviewAlphabet == {"1", "2", ",", "(", " ", "r"}

ReviewDocs ==
    {<<[El("span", 0) EXCEPT !.auto = "bubbleReviewCount", !.text = t]>> :
        t \in SeqsUpTo(ReviewAlphabet, MaxText)}

\* --- galleries of n img elements ---
OddKinds == {"icon", "nonphoto", "nosrc", "overlap", "lazy", "relative", "queryfirst"}

\* the img at position b of a gallery, of an unusual kind
OddImg(kind, i) ==
    CASE kind = "icon" ->
            [El("img", 0) EXCEPT !.src =
                <<"https://cdn", "/", "media/photo-", "s", "/", "icon", ToString(i)>>]
      [] kind = "nonphoto" ->
            [El("img", 0) EXCEPT !.src = <<"https://cdn", "/", "img", "/", ToString(i)>>]
      [] kind = "nosrc" -> El("img", 0)
      [] kind = "overlap" ->
            [El("img", 0) EXCEPT !.src =
                <<"https://cdn", "/", "media/photo-", "s", "/", "media/photo-", "t",
                  "/", ToString(i), ".jpg">>]
      [] kind = "lazy" ->
            [El("img", 0) EXCEPT !.lazyurl = Photo(i, "l") \o Query,
                                 !.datasrc = Photo(i + 100, "s"),
                                 !.src = <<"https://cdn", "/", "blank.gif">>]
      [] kind = "relative" ->
            [El("img", 0) EXCEPT !.src = <<"media/photo-", "s", "/", ToString(i), ".jpg">>]
      [] kind = "queryfirst" ->
            [El("img", 0) EXCEPT !.datasrc =
                <<"https://cdn", "?", "u", "=", "/", "media/photo-", "s", "/",
                  ToString(i)>>]

\* position i shows photo i, with a query string at odd i; position d shows the
\* photo of position d - 1 again in another size class; position b is odd
GalleryImg(i, d, b, kind) ==
    IF i = b THEN OddImg(kind, i)
    ELSE IF i = d /\ i > 1
         THEN [El("img", 0) EXCEPT !.datasrc = Photo(i - 1, ClassOf(i))]
         ELSE [El("img", 0) EXCEPT !.src =
                  Photo(i, ClassOf(i)) \o (IF i % 2 = 1 THEN Query ELSE <<>>)]

Gallery(n, d, b, kind) == [i \in 1..n |-> GalleryImg(i, d, b, kind)]

GalleryDocs ==
    {Gallery(n, d, b, kind) :
        n \in 0..MaxImgs, d \in 0..MaxImgs, b \in 0..MaxImgs, kind \in OddKinds}

Documents == HeadingDocs \cup BodyDocs \cup ReviewDocs \cup GalleryDocs

ErrorPages == {<<>>, <<[El("h1", 0) EXCEPT !.text = <<"Not", " ", "Found">>]>>}

ErrorStatuses == {204, 301, 404, 503}

(***************************************************************************)
(* The request handler scrape_hotel (main.py:15-153).                      *)
(***************************************************************************)
VARIABLES
    pc,              \* position of the handler
    status_code,     \* response.status_code, 0 before the fetch
    exc,             \* the exception in flight or handled
    http_status,     \* status the caller receives, 0 while the handler runs
    content,         \* response.content: the document as delivered
    removed,         \* elements decomposed from soup
    hotel_name, description, contact_number, rating, review_count,
    images, img_tags, idx

vars == <<pc, status_code, exc, http_status, content, removed, hotel_name,
          description, contact_number, rating, review_count, images, img_tags, idx>>

fields == <<hotel_name, description, contact_number, rating, review_count,
            images, img_tags, idx>>

NoException == [type |-> "None", status_code |-> 0]

FetchErrors == {"Timeout", "ConnectionError"}

Init ==
    /\ pc = "start"
    /\ status_code = 0
    /\ exc = NoException
    /\ http_status = 0
    /\ content = <<>>
    /\ removed = {}
    /\ hotel_name = Unset
    /\ description = Unset
    /\ contact_number = Unset
    /\ rating = Unset
    /\ review_count = Unset
    /\ images = Unset
    /\ img_tags = <<>>
    /\ idx = 0

\* requests.get raises (timeout, network error)
FetchRaises ==
    /\ pc = "start"
    /\ \E e \in FetchErrors : exc' = [type |-> e, status_code |-> 0]
    /\ pc' = "except"
    /\ UNCHANGED <<status_code, http_status, content, removed, fields>>

\* requests.get returns a response
FetchResponse ==
    /\ pc = "start"
    /\ \/ /\ status_code' = 200
          /\ content' \in Documents
       \/ /\ status_code' \in ErrorStatuses
          /\ content' \in ErrorPages
    /\ pc' = "check"
    /\ UNCHANGED <<exc, http_status, removed, fields>>

\* if response.status_code != 200: raise HTTPException(status_code=400, ...)
CheckStatus ==
    /\ pc = "check"
    /\ IF status_code # 200
       THEN /\ exc' = [type |-> "HTTPException", status_code |-> 400]
            /\ pc' = "except"
       ELSE /\ exc' = exc
            /\ pc' = "parse"
    /\ UNCHANGED <<status_code, http_status, content, removed, fields>>

\* soup = BeautifulSoup(response.content, "html.parser")
Parse ==
    /\ pc = "parse"
    /\ removed' = {}
    /\ pc' = "name"
    /\ UNCHANGED <<status_code, exc, http_status, content, fields>>

\* the parser rejects the markup
ParseRaises ==
    /\ pc = "parse"
    /\ exc' = [type |-> "ParserRejectedMarkup", status_code |-> 0]
    /\ pc' = "except"
    /\ UNCHANGED <<status_code, http_status, content, removed, fields>>

\* except Exception as e: raise HTTPException(status_code=500, detail=str(e))
ExceptHandler ==
    /\ pc = "except"
    /\ http_status' = 500
    /\ pc' = "raised"
    /\ UNCHANGED <<status_code, exc, content, removed, fields>>

ExtractName ==
    /\ pc = "name"
    /\ hotel_name' = HotelName(content, removed)
    /\ removed' = CleanHeading(content, removed)
    /\ pc' = "description"
    /\ UNCHANGED <<status_code, exc, http_status, content, description,
                   contact_number, rating, review_count, images, img_tags, idx>>

ExtractDescription ==
    /\ pc = "description"
    /\ description' = Description(content, removed)
    /\ pc' = "contact"
    /\ UNCHANGED <<status_code, exc, http_status, content, removed, hotel_name,
                   contact_number, rating, review_count, images, img_tags, idx>>

ExtractContact ==
    /\ pc = "contact"
    /\ contact_number' = ContactNumber(content, removed)
    /\ pc' = "rating"
    /\ UNCHANGED <<status_code, exc, http_status, content, removed, hotel_name,
                   description, rating, review_count, images, img_tags, idx>>

ExtractRating ==
    /\ pc = "rating"
    /\ rating' = Rating(content, removed)
    /\ pc' = "review"
    /\ UNCHANGED <<status_code, exc, http_status, content, removed, hotel_name,
                   description, contact_number, review_count, images, img_tags, idx>>

ExtractReviewCount ==
    /\ pc = "review"
    /\ review_count' = ReviewCount(content, removed)
    /\ pc' = "find_imgs"
    /\ UNCHANGED <<status_code, exc, http_status, content, removed, hotel_name,
                   description, contact_number, rating, images, img_tags, idx>>

\* images = []; img_tags = soup.find_all("img")
FindImages ==
    /\ pc = "find_imgs"
    /\ images' = <<>>
    /\ img_tags' = ImgTags(content, removed)
    /\ idx' = 1
    /\ pc' = "loop"
    /\ UNCHANGED <<status_code, exc, http_status, content, removed, hotel_name,
                   description, contact_number, rating, review_count>>

\* one iteration of: for img in img_tags
LoopImage ==
    /\ pc = "loop"
    /\ idx <= Len(img_tags)
    /\ images' = ScanOne(images, content[img_tags[idx]])
    /\ idx' = idx + 1
    /\ pc' = IF CapReached(images') THEN "return" ELSE "loop"
    /\ UNCHANGED <<status_code, exc, http_status, content, removed, hotel_name,
                   description, contact_number, rating, review_count, img_tags>>

\* the loop runs out of img elements
LoopEnd ==
    /\ pc = "loop"
    /\ idx > Len(img_tags)
    /\ pc' = "return"
    /\ UNCHANGED <<status_code, exc, http_status, content, removed, fields>>

\* return {"status": "success", "data": {...}}
Return ==
    /\ pc = "return"
    /\ http_status' = 200
    /\ pc' = "done"
    /\ UNCHANGED <<status_code, exc, content, removed, fields>>

Next ==
    \/ FetchRaises
    \/ FetchResponse
    \/ CheckStatus
    \/ Parse
    \/ ParseRaises
    \/ ExceptHandler
    \/ ExtractName
    \/ ExtractDescription
    \/ ExtractContact
    \/ ExtractRating
    \/ ExtractReviewCount
    \/ FindImages
    \/ LoopImage
    \/ LoopEnd
    \/ Return

Spec == Init /\ [][Next]_vars

(***************************************************************************)
(* Properties.                                                             *)
(***************************************************************************)
\* the fetch failed: requests.get raised, or the status is not a 2xx status
FetchFailed ==
    \/ exc.type \in FetchErrors
    \/ status_code # 0 /\ ~(status_code \in 200..299)

NoExtractorRan ==
    /\ hotel_name = Unset /\ description = Unset /\ contact_number = Unset
    /\ rating = Unset /\ review_count = Unset /\ images = Unset

\* C1: a request whose fetch fails is answered with HTTP 400, a status other
\* than the 500 of an internal failure, and no extractor has run.
C1_FetchFailureIs400 ==
    (pc = "raised" /\ FetchFailed) => (http_status = 400 /\ NoExtractorRan)

InScan == pc \in {"loop", "return", "done"}

\* C2: in every state of the image scan, and in the result, the images list
\* has at most 10 entries and no two of them are equal.
C2_ImagesBoundedDistinct ==
    InScan =>
        /\ Len(images) <= MaxImages
        /\ \A i, j \in 1..Len(images) : i # j => images[i] # images[j]

\* C2 witness: the scan stopped at the cap with img elements left over, after
\* it was offered a URL it already held.
C2_Witness ==
    /\ pc = "return"
    /\ Len(images) = MaxImages
    /\ idx <= Len(img_tags)
    /\ \E i, j \in 1..(idx - 1) :
          /\ i < j
          /\ Qualifies(ImgSrc(content[img_tags[i]]))
          /\ Qualifies(ImgSrc(content[img_tags[j]]))
          /\ Normalize(ImgSrc(content[img_tags[i]]))
                = Normalize(ImgSrc(content[img_tags[j]]))

RECURSIVE Distinct(_, _)
\* q without the entries that occur earlier in q or in seen
Distinct(q, seen) ==
    IF q = <<>> THEN <<>>
    ELSE IF Head(q) \in seen THEN Distinct(Tail(q), seen)
         ELSE <<Head(q)>> \o Distinct(Tail(q), seen \cup {Head(q)})

Take(q, n) == SubSeq(q, 1, IF Len(q) < n THEN Len(q) ELSE n)

RECURSIVE QualifyingUrls(_, _)
\* the normalized URLs of the qualifying img elements among `order`
QualifyingUrls(nodes, order) ==
    IF order = <<>> THEN <<>>
    ELSE LET src == ImgSrc(nodes[Head(order)])
         IN  (IF Qualifies(src) THEN <<Normalize(src)>> ELSE <<>>)
                 \o QualifyingUrls(nodes, Tail(order))

\* the first 10 distinct normalized URLs of the qualifying img elements of the
\* tree (nodes, rem), in document order
FirstTen(nodes, rem) ==
    Take(Distinct(QualifyingUrls(nodes, ImgTags(nodes, rem)), {}), MaxImages)

\* C3: the returned images list is the first 10 (or all) distinct normalized
\* URLs of the document's qualifying img elements, in document order.
C3_ImagesAreFirstTen == pc = "done" => images = FirstTen(content, {})

\* the same statement about the tree the scan reads, after the heading cleanup
ScanMatchesScannedTree == pc = "done" => images = FirstTen(content, removed)

SizeSegmentLeft(u) == \E i \in 1..Len(u) : SizeSegmentAt(u, i)

\* C4 as stated: no returned URL holds a denylisted substring, a "?", or a
\* size-class segment /media/photo-[sflmt]/ that was not rewritten.
C4_Original ==
    pc = "done" =>
        \A u \in Range(images) :
            /\ ~Denylisted(u)
            /\ ~("?" \in Range(u))
            /\ ~SizeSegmentLeft(u)

\* C4 amended: no returned URL holds a denylisted substring or a "?", and a
\* size-class segment left in it starts on the closing slash of a
\* /media/photo-w/ segment (it overlapped a segment that was rewritten).
C4_Amended ==
    pc = "done" =>
        \A u \in Range(images) :
            /\ ~Denylisted(u)
            /\ ~("?" \in Range(u))
            /\ \A i \in 1..Len(u) :
                  SizeSegmentAt(u, i) => (i > 3 /\ MatchAt(u, WideSegment, i - 3))

\* C4 witness: the result holds the URL of an img whose source carried both a
\* size-class segment and a query string.
C4_Witness ==
    /\ pc = "done"
    /\ \E k \in 1..Len(img_tags) :
          LET src == ImgSrc(content[img_tags[k]])
          IN  /\ Qualifies(src)
              /\ "?" \in Range(src)
              /\ SizeSegmentLeft(src)
              /\ Normalize(src) \in Range(images)
              /\ Normalize(src) # src

\* the elements of every badge subtree below the heading of the document
BadgeElements(nodes) ==
    LET h1 == Heading(nodes, {})
    IN  IF h1 = 0 THEN {}
        ELSE UNION {Subtree(nodes, b) :
                       b \in {i \in 1..Len(nodes) :
                                 /\ IsDescendant(nodes, i, h1)
                                 /\ nodes[i].auto = "listingBadgeTooltip"}}

\* C5: when the heading holds claimed-listing badges, the returned name holds
\* the text of none of the elements of those badges.
C5_NameExcludesBadgeText ==
    pc = "done" =>
        \A i \in BadgeElements(content) :
            Strip(content[i].text) # <<>>
                => ~Contains(hotel_name, Strip(content[i].text))

\* C6: the name is "N/A" when the heading is absent or its text is empty after
\* the badge and icon removal, and it is never the empty string.
C6_NameUnknownWhenEmpty ==
    pc = "done" =>
        LET h1 == Heading(content, removed)
        IN  /\ hotel_name # <<>>
            /\ h1 = 0 => hotel_name = NA
            /\ (h1 # 0 /\ GetText(content, removed, h1, <<>>, TRUE) = <<>>)
                  => hotel_name = NA

\* the description the two tiers are stated to give for the tree (nodes, rem)
StatedDescription(nodes, rem) ==
    LET about  == AboutTab(nodes, rem)
        byName == {i \in Live(nodes, rem) :
                      nodes[i].tag = "meta" /\ nodes[i].mname = "description"}
        byProp == {i \in Live(nodes, rem) :
                      nodes[i].tag = "meta" /\ nodes[i].mprop = "og:description"}
    IN  IF about # 0 /\ AboutText(nodes, rem, about) # <<>>
        THEN AboutText(nodes, rem, about)
        ELSE IF byName # {} THEN MetaContent(nodes, Min(byName))
        ELSE IF byProp # {} THEN MetaContent(nodes, Min(byProp))
        ELSE NA

\* C7: the description is the about-section text when that is non-empty, else
\* the content of meta name=description, else of meta og:description, else "N/A".
C7_DescriptionTiers ==
    pc = "done" => description = StatedDescription(content, removed)

\* C8: the review count is "N/A" or a non-empty string of digits; it is "N/A"
\* when the element is absent or its text holds no digit.
C8_ReviewCountDigitsOrUnknown ==
    pc = "done" =>
        LET tag == ReviewTag(content, removed)
        IN  /\ \/ review_count = NA
               \/ review_count # <<>> /\ Range(review_count) \subseteq Digits
            /\ tag = 0 => review_count = NA
            /\ (tag # 0 /\ Range(content[tag].text) \cap Digits = {})
                  => review_count = NA

\* C9: the values the other extractors return after the name extractor has run
\* are the values they return on the document before the name extractor runs.
C9_OrderIndependent ==
    pc = "done" =>
        /\ description = Description(content, {})
        /\ contact_number = ContactNumber(content, {})
        /\ rating = Rating(content, {})
        /\ review_count = ReviewCount(content, {})
        /\ images = Images(content, {})

\* the rating the two tiers are stated to give for the tree (nodes, rem)
StatedRating(nodes, rem) ==
    LET tag == RatingTag(nodes, rem)
        txt == TextRating(nodes, rem)
    IN  IF tag # 0 THEN Strip(GetText(nodes, rem, tag, <<>>, FALSE))
        ELSE IF txt # 0 THEN <<nodes[txt].text[BubblesMatch(nodes[txt].text)]>>
        ELSE NA

\* C10: the rating is the trimmed text of span.uwJeR when it exists, else the
\* <digit>.<digit> token of the text matching "<digit>.<digit> of 5 bubbles",
\* else "N/A".
C10_RatingTiers == pc = "done" => rating = StatedRating(content, removed)

=============================================================================
